---------------------------- MODULE Spec2Model ----------------------------
(***************************************************************************)
(* A model of src/src/bmxdocs.ts: the BlitzMax command-documentation       *)
(* index.  The catalog file (commands.txt) is read, split into lines, each *)
(* line is parsed into a BmxCommand record (addCommand), the parameter     *)
(* list of a function is parsed character by character                     *)
(* (parseCommandParams), and the records are kept in the module-level      *)
(* array _commandsList, which getCommand queries.                          *)
(*                                                                         *)
(* A JavaScript string is modelled as a sequence of one-character strings, *)
(* an optional field (x?: T) as a sequence of length 0 (undefined) or 1.   *)
(***************************************************************************)
EXTENDS Integers, Sequences, FiniteSets, TLC

VARIABLES
    commandsListSet,  \* FALSE while _commandsList is still undefined
    commandsList,     \* _commandsList: the backing sequence of BmxCommand
    blitzMaxPath,     \* whether BlitzMaxPath (helper) is set
    fileReadable,     \* whether fs.readFileSync of commands.txt succeeds
    fileData,         \* the text of commands.txt on disk
    rebuilding,       \* a makedocs process (blitzmax.rebuildDoc) is running
    popupOpen,        \* the "Documentation not found" warning awaits an answer
    lastCall,         \* the last call of the query surface and what it returned
    parsePc,          \* parseCommandParams: "entry", "loop" or "done"
    paramsRaw,        \* parseCommandParams: cmd.paramsRaw
    paramsSet,        \* parseCommandParams: whether cmd.params is defined
    index,            \* parseCommandParams: the loop index
    parser            \* parseCommandParams: params, createNewParam, parse, inString

vars == <<commandsListSet, commandsList, blitzMaxPath, fileReadable, fileData,
          rebuilding, popupOpen, lastCall, parsePc, paramsRaw, paramsSet, index,
          parser>>

indexVars == <<commandsListSet, commandsList, blitzMaxPath, fileReadable,
               fileData, rebuilding, popupOpen, lastCall>>

parserVars == <<parsePc, paramsRaw, paramsSet, index, parser>>

-----------------------------------------------------------------------------
(* Optional values *)

None == <<>>

Some(x) == <<x>>

IsSome(o) == Len(o) = 1

-----------------------------------------------------------------------------
(* JavaScript string primitives used by the source *)

Max(a, b) == IF a >= b THEN a ELSE b

\* One character of String.prototype.toLowerCase over the model's alphabet.
ToLowerChar(c) ==
    CASE c = "A" -> "a" [] c = "B" -> "b" [] c = "D" -> "d" [] c = "F" -> "f"
      [] c = "I" -> "i" [] c = "M" -> "m" [] c = "N" -> "n" [] c = "O" -> "o"
      [] c = "R" -> "r" [] c = "S" -> "s" [] c = "C" -> "c"
      [] OTHER -> c

\* s.toLowerCase()
ToLowerCase(s) == [i \in 1..Len(s) |-> ToLowerChar(s[i])]

\* s.startsWith(sub, at) with a 0-based position
StartsWithAt(s, sub, at) ==
    /\ at + Len(sub) <= Len(s)
    /\ \A k \in 1..Len(sub) : s[at + k] = sub[k]

\* s.indexOf(sub): the 0-based position of the first occurrence, -1 if none
IndexOf(s, sub) ==
    LET hits == {at \in 0..Len(s) : StartsWithAt(s, sub, at)}
    IN  IF hits = {} THEN -1
        ELSE CHOOSE at \in hits : \A other \in hits : at <= other

\* s.includes(sub)
Includes(s, sub) == IndexOf(s, sub) >= 0

\* s.substr(from): the tail from a 0-based position
Substr(s, from) == SubSeq(s, from + 1, Len(s))

\* s.slice(0, -n) for n >= 1: s without its last n characters
SliceOff(s, n) == SubSeq(s, 1, Max(Len(s) - n, 0))

\* s.split(sep) for a non-empty separator: always at least one segment
RECURSIVE Split(_, _)
Split(s, sep) ==
    LET at == IndexOf(s, sep)
    IN  IF at < 0 THEN <<s>>
        ELSE <<SubSeq(s, 1, at)>> \o Split(Substr(s, at + Len(sep)), sep)

\* s.trim(): the only white space of the model's alphabet is the blank
RECURSIVE TrimStart(_)
TrimStart(s) ==
    IF s # <<>> /\ Head(s) = " " THEN TrimStart(Tail(s)) ELSE s

RECURSIVE TrimEnd(_)
TrimEnd(s) ==
    IF s # <<>> /\ s[Len(s)] = " " THEN TrimEnd(SubSeq(s, 1, Len(s) - 1)) ELSE s

Trim(s) == TrimEnd(TrimStart(s))

\* The text JavaScript concatenates for the value undefined
Undefined == <<"u", "n", "d", "e", "f", "i", "n", "e", "d">>

\* arr[i] + '' for a 0-based i: the element, or "undefined" past the end
ElemText(arr, i) == IF i + 1 <= Len(arr) THEN arr[i + 1] ELSE Undefined

-----------------------------------------------------------------------------
(* parseCommandParams: the parameter sub-parser *)

TypeInt == <<"I", "n", "t">>

TypeFloat == <<"F", "l", "o", "a", "t">>

TypeDouble == <<"D", "o", "u", "b", "l", "e">>

TypeString == <<"S", "t", "r", "i", "n", "g">>

\* The object pushed when createNewParam is set
NewParam == [name |-> <<>>, type |-> TypeInt, default |-> <<>>]

\* The locals of parseCommandParams before the loop
ParserStart ==
    [params |-> <<>>, createNewParam |-> TRUE, parse |-> "name", inString |-> FALSE]

\* A loop head that pushes a fresh param without resetting createNewParam.
PushKeepsFlag(st) ==
    IF st.createNewParam
    THEN [st EXCEPT !.params = Append(st.params, NewParam)]
    ELSE st

\* The head of the loop body: push a fresh param when createNewParam is set
PushIfNew(st) ==
    IF st.createNewParam
    THEN [st EXCEPT !.createNewParam = FALSE, !.params = Append(st.params, NewParam)]
    ELSE st

\* param.<field> = v on the last element of cmd.params
SetLast(st, field, v) ==
    [st EXCEPT !.params[Len(st.params)] =
        [st.params[Len(st.params)] EXCEPT ![field] = v]]

LastParam(st) == st.params[Len(st.params)]

\* A name mode in which '#' declares a Double.
ParseNameHashIsDouble(st, chr) ==
    CASE chr = ":" -> [SetLast(st, "type", <<>>) EXCEPT !.parse = "type"]
      [] chr = "=" -> [st EXCEPT !.parse = "default"]
      [] chr = "," -> [st EXCEPT !.createNewParam = TRUE, !.parse = "name"]
      [] chr \in {"%"} -> [SetLast(st, "type", TypeInt) EXCEPT !.parse = "type"]
      [] chr \in {"#", "!"} -> [SetLast(st, "type", TypeDouble) EXCEPT !.parse = "type"]
      [] chr = "$" -> [SetLast(st, "type", TypeString) EXCEPT !.parse = "type"]
      [] OTHER -> IF chr # " "
                  THEN SetLast(st, "name", Append(LastParam(st).name, chr))
                  ELSE st

\* case parsePart.name
ParseName(st, chr) ==
    CASE chr = ":" -> [SetLast(st, "type", <<>>) EXCEPT !.parse = "type"]
      [] chr = "=" -> [st EXCEPT !.parse = "default"]
      [] chr = "," -> [st EXCEPT !.createNewParam = TRUE, !.parse = "name"]
      [] chr = "%" -> [SetLast(st, "type", TypeInt) EXCEPT !.parse = "type"]
      [] chr = "#" -> [SetLast(st, "type", TypeFloat) EXCEPT !.parse = "type"]
      [] chr = "!" -> [SetLast(st, "type", TypeDouble) EXCEPT !.parse = "type"]
      [] chr = "$" -> [SetLast(st, "type", TypeString) EXCEPT !.parse = "type"]
      [] OTHER -> IF chr # " "
                  THEN SetLast(st, "name", Append(LastParam(st).name, chr))
                  ELSE st

\* A type mode in which '"' toggles inString.
ParseTypeTogglesString(st, chr) ==
    CASE chr = "," -> [st EXCEPT !.createNewParam = TRUE, !.parse = "name"]
      [] chr = "=" -> [st EXCEPT !.parse = "default"]
      [] chr = "\"" -> [SetLast(st, "type", Append(LastParam(st).type, chr))
                         EXCEPT !.inString = ~st.inString]
      [] OTHER -> IF chr # " "
                  THEN SetLast(st, "type", Append(LastParam(st).type, chr))
                  ELSE st

\* case parsePart.type
ParseType(st, chr) ==
    CASE chr = "," -> [st EXCEPT !.createNewParam = TRUE, !.parse = "name"]
      [] chr = "=" -> [st EXCEPT !.parse = "default"]
      [] OTHER -> IF chr # " "
                  THEN SetLast(st, "type", Append(LastParam(st).type, chr))
                  ELSE st

\* A parser that lets a comma end the parameter even inside a quoted string.
ParseDefaultSplitsInString(st, chr) ==
    LET s1 == IF chr = ","
              THEN [st EXCEPT !.createNewParam = TRUE, !.parse = "name"]
              ELSE IF st.inString \/ chr # " "
                   THEN SetLast(st, "default", Append(LastParam(st).default, chr))
                   ELSE st
    IN  IF chr = "\"" THEN [s1 EXCEPT !.inString = ~st.inString] ELSE s1

\* case parsePart.default
ParseDefault(st, chr) ==
    LET s1 == IF st.inString
              THEN SetLast(st, "default", Append(LastParam(st).default, chr))
              ELSE IF chr = ","
                   THEN [st EXCEPT !.createNewParam = TRUE, !.parse = "name"]
                   ELSE IF chr # " "
                        THEN SetLast(st, "default", Append(LastParam(st).default, chr))
                        ELSE st
    IN  IF chr = "\"" THEN [s1 EXCEPT !.inString = ~st.inString] ELSE s1

\* switch ( parse )
ParseSwitch(st, chr) ==
    CASE st.parse = "name" -> ParseName(st, chr)
      [] st.parse = "type" -> ParseType(st, chr)
      [] st.parse = "default" -> ParseDefault(st, chr)

\* One iteration of the loop over cmd.paramsRaw
ParseChar(st, chr) == ParseSwitch(PushIfNew(st), chr)

\* The whole loop: the state after the characters raw[from..]
RECURSIVE ParseLoop(_, _, _)
ParseLoop(st, raw, from) ==
    IF from > Len(raw) THEN st ELSE ParseLoop(ParseChar(st, raw[from]), raw, from + 1)

\* "Make things pretty!": the rendering of cmd.params
RECURSIVE Pretty(_, _)
Pretty(params, from) ==
    IF from > Len(params) THEN <<>>
    ELSE LET param == params[from]
         IN  param.name \o <<":">> \o param.type
             \o (IF Len(param.default) > 0
                 THEN <<" ", "=", " ">> \o param.default ELSE <<>>)
             \o (IF from < Len(params) THEN <<",", " ">> ELSE <<>>)
             \o Pretty(params, from + 1)

\* The end of parseCommandParams: cmd.params and its rendering cmd.paramsPretty
ParsedFields(trimmed, params) ==
    [paramsRaw |-> trimmed,
     params |-> Some(params),
     paramsPretty |-> Some(Pretty(params, 1))]

\* A parse that leaves an empty params array for a blank parameter text.
ParseTrimmedEmptyArray(trimmed) ==
    IF trimmed = <<>>
    THEN [paramsRaw |-> trimmed, params |-> Some(<<>>), paramsPretty |-> Some(<<>>)]
    ELSE ParsedFields(trimmed, ParseLoop(ParserStart, trimmed, 1).params)

\* parseCommandParams after cmd.paramsRaw = cmd.paramsRaw.trim()
ParseTrimmed(trimmed) ==
    IF trimmed = <<>>
    THEN [paramsRaw |-> trimmed, params |-> None, paramsPretty |-> None]
    ELSE ParsedFields(trimmed, ParseLoop(ParserStart, trimmed, 1).params)

\* parseCommandParams( cmd ): the fields it leaves on cmd
ParseCommandParams(raw) ==
    IF raw = <<>>
    THEN [paramsRaw |-> raw, params |-> None, paramsPretty |-> None]
    ELSE ParseTrimmed(Trim(raw))

-----------------------------------------------------------------------------
(* addCommand: the line parser *)

\* Whether a JavaScript string option is truthy: present and not empty
Truthy(o) == IsSome(o) /\ o[1] # <<>>

\* command.url = rightSide.slice( 0, -command.urlLocation.length )
UrlBefore(rightSide, urlLocation) ==
    [urlLocation |-> Some(urlLocation),
     url |-> Some(SliceOff(rightSide, Len(urlLocation)))]

\* "Figure out URL": url and urlLocation from the last '|' segment
UrlOf(rightSide) ==
    IF Includes(rightSide, <<"#">>)
    THEN UrlBefore(rightSide, Substr(rightSide, IndexOf(rightSide, <<"#">>)))
    ELSE [urlLocation |-> None, url |-> Some(rightSide)]

\* pathSplits[1].toLowerCase() raises a TypeError when pathSplits[1] is undefined
ModuleThrows(url) == url # <<>> /\ Len(Split(url, <<"/">>)) < 2

\* A module inference that takes segments 1 and 2 of the mod layout.
ModuleFromFirstSegments(pathSplits, second) ==
    IF second = <<"d", "o", "c", "s">>
    THEN Some(ElemText(pathSplits, 4) \o <<"/">> \o ElemText(pathSplits, 5))
    ELSE IF second = <<"m", "o", "d">>
    THEN Some(ElemText(pathSplits, 1) \o <<"/">> \o ElemText(pathSplits, 2))
    ELSE None

\* The two documentation-tree shapes, from pathSplits and pathSplits[1].toLowerCase()
ModuleFrom(pathSplits, second) ==
    IF second = <<"d", "o", "c", "s">>
    THEN Some(ElemText(pathSplits, 4) \o <<"/">> \o ElemText(pathSplits, 5))
    ELSE IF second = <<"m", "o", "d">>
    THEN Some(ElemText(pathSplits, 2) \o <<"/">> \o ElemText(pathSplits, 3))
    ELSE None

\* const pathSplits = command.url.split( '/' )
ModuleOfSplits(pathSplits) == ModuleFrom(pathSplits, ToLowerCase(pathSplits[2]))

\* "Track down module", for a url on which it does not throw
ModuleOf(url) == IF url = <<>> THEN None ELSE ModuleOfSplits(Split(url, <<"/">>))

DescSep == <<" ", ":", " ">>

\* leftSide = leftSide.slice( 0, -command.description.length - 3 )
DescriptionCut(leftSide, description) ==
    [description |-> Some(description),
     leftSide |-> SliceOff(leftSide, Len(description) + 3)]

\* "Take care of the description": description and what is left of leftSide
DescriptionOf(leftSide) ==
    IF Includes(leftSide, DescSep)
    THEN DescriptionCut(leftSide, Split(leftSide, DescSep)[2])
    ELSE [description |-> None, leftSide |-> leftSide]

\* The fields of a function once parseCommandParams has run
FunctionFields(parsed, leftSide) ==
    [isFunction |-> TRUE,
     paramsRaw |-> Some(parsed.paramsRaw),
     params |-> parsed.params,
     paramsPretty |-> parsed.paramsPretty,
     leftSide |-> leftSide]

\* leftSide = leftSide.slice( 0, -command.paramsRaw.length - 2 ), then the parse
FunctionCut(leftSide, raw) ==
    FunctionFields(ParseCommandParams(raw), SliceOff(leftSide, Len(raw) + 2))

\* "Figure out if this is a function": paramsRaw, the parsed params, leftSide
FunctionOf(leftSide) ==
    IF Includes(leftSide, <<"(">>)
    THEN FunctionCut(leftSide,
                     SliceOff(Substr(leftSide, IndexOf(leftSide, <<"(">>) + 1), 1))
    ELSE [isFunction |-> FALSE, paramsRaw |-> None, params |-> None,
          paramsPretty |-> None, leftSide |-> leftSide]

\* leftSide = leftSide.slice( 0, -command.returns.length - 1 )
ReturnsCut(leftSide, returns) ==
    [returns |-> Some(returns), leftSide |-> SliceOff(leftSide, Len(returns) + 1)]

\* "Returns?": returns and what is left of leftSide
ReturnsOf(leftSide) ==
    IF Includes(leftSide, <<":">>)
    THEN ReturnsCut(leftSide, Substr(leftSide, IndexOf(leftSide, <<":">>) + 1))
    ELSE [returns |-> None, leftSide |-> leftSide]

\* A name handling that keeps the placeholder's search name.
NameKeepsPlaceholderSearch(leftSide) ==
    [realName |-> leftSide, searchName |-> <<"n", "o", " ", "n", "a", "m", "e">>]

\* "And we should be left with the command name"
NameOf(leftSide) ==
    [realName |-> leftSide, searchName |-> ToLowerCase(leftSide)]

\* "Make a pretty markdown description": what is appended to markdownString
MarkdownOf(realName, returns, paramsPretty, description, module) ==
    IF Truthy(description) \/ Truthy(paramsPretty)
    THEN Some([codeblock |->
                  IF Truthy(paramsPretty)
                  THEN Some(realName
                            \o (IF Truthy(returns) THEN <<":">> \o returns[1] ELSE <<>>)
                            \o <<"(", " ">> \o paramsPretty[1] \o <<" ", ")">>)
                  ELSE None,
               text |-> IF Truthy(description)
                        THEN Some(description[1] \o <<"\n">>) ELSE None,
               package |-> IF Truthy(module) THEN module ELSE None])
    ELSE None

\* What is appended to shortMarkdownString
ShortMarkdownOf(paramsPretty, description, module) ==
    IF Truthy(description) \/ Truthy(paramsPretty)
    THEN Some([text |-> IF Truthy(description)
                        THEN Some(description[1] \o <<"\n">>) ELSE None,
               package |-> IF Truthy(module) THEN module ELSE None])
    ELSE None

\* The placeholders of the snippet: param.default, or name:type
Placeholders(params) ==
    [i \in 1..Len(params) |->
        IF params[i].default # <<>> THEN params[i].default
        ELSE params[i].name \o <<":">> \o params[i].type]

\* "Make pretty insertion text"
InsertTextOf(isFunction, realName, params) ==
    IF isFunction
    THEN Some([name |-> realName,
               placeholders |-> IF IsSome(params) THEN Some(Placeholders(params[1]))
                                ELSE None])
    ELSE None

\* let rightSide = lineSplit[lineSplit.length - 1]
RightSide(lineSplit) == lineSplit[Len(lineSplit)]

\* Whether the forEach callback raises on this line
LineThrows(line) == ModuleThrows(UrlOf(RightSide(Split(line, <<"|">>))).url[1])

\* The BmxCommand pushed at "Done!", from what the steps before it found:
\* u (url), module, d (description), f (function), r (returns), n (name)
Command(u, module, d, f, r, n) ==
        [realName |-> n.realName,
         searchName |-> n.searchName,
         description |-> d.description,
         shortMarkdownString |-> ShortMarkdownOf(f.paramsPretty, d.description, module),
         markdownString |->
             MarkdownOf(n.realName, r.returns, f.paramsPretty, d.description, module),
         isFunction |-> f.isFunction,
         returns |-> r.returns,
         params |-> f.params,
         paramsRaw |-> f.paramsRaw,
         paramsPretty |-> f.paramsPretty,
         url |-> u.url,
         urlLocation |-> u.urlLocation,
         module |-> module,
         insertText |-> InsertTextOf(f.isFunction, n.realName, f.params)]

\* The steps of the callback in the order of the source, each on the leftSide
\* the step before it left
AfterReturns(u, d, f, r) ==
    Command(u, ModuleOf(u.url[1]), d, f, r, NameOf(r.leftSide))

AfterFunction(u, d, f) == AfterReturns(u, d, f, ReturnsOf(f.leftSide))

AfterDescription(u, d) == AfterFunction(u, d, FunctionOf(d.leftSide))

SplitCommand(lineSplit) ==
    AfterDescription(UrlOf(RightSide(lineSplit)), DescriptionOf(lineSplit[1]))

\* The BmxCommand that the forEach callback pushes for a line it does not throw on
LineCommand(line) == SplitCommand(Split(line, <<"|">>))

\* lines.forEach: the list after lines[from..], and whether a callback threw
RECURSIVE AddLines(_, _, _)
AddLines(list, lines, from) ==
    IF from > Len(lines) THEN [list |-> list, threw |-> FALSE]
    ELSE IF lines[from] = <<>> THEN AddLines(list, lines, from + 1)
    ELSE IF LineThrows(lines[from]) THEN [list |-> list, threw |-> TRUE]
    ELSE AddLines(Append(list, LineCommand(lines[from])), lines, from + 1)

\* os.EOL
EOL == <<"\n">>

\* addCommand( data ) on an empty _commandsList
AddCommand(data) == AddLines(<<>>, Split(data, EOL), 1)

-----------------------------------------------------------------------------
(* The command index: cacheCommands, cacheCommandsIfEmpty, getCommand *)

\* cacheCommands( showPopup ): _commandsList afterwards, whether the warning
\* popup is shown, and the value returned
\* The try block of cacheCommands: _commandsList after it
TryLoad ==
    IF fileReadable
    THEN [set |-> TRUE, list |-> AddCommand(fileData).list]
    ELSE [set |-> commandsListSet, list |-> commandsList]

\* "Did we add any commands?": the popup and the value returned
AfterLoad(showPopup, loaded) ==
    [set |-> loaded.set,
     list |-> loaded.list,
     popup |-> blitzMaxPath /\ showPopup /\ (~loaded.set \/ Len(loaded.list) <= 0),
     didRead |-> TRUE,
     returned |-> IF loaded.set THEN Len(loaded.list) >= 0 ELSE FALSE]

\* cacheCommands( showPopup ): _commandsList afterwards, whether the warning
\* popup is shown, and the value returned
CacheCommands(showPopup) == AfterLoad(showPopup, TryLoad)

\* return _commandsList ? _commandsList.length >= 0 : false
IfEmptyReturn(c) ==
    [c EXCEPT !.returned = IF c.set THEN Len(c.list) >= 0 ELSE FALSE]

\* A cacheCommandsIfEmpty that reloads the catalog on every call.
CacheCommandsAlways(showPopup) == IfEmptyReturn(CacheCommands(showPopup))

\* cacheCommandsIfEmpty( showPopup )
CacheCommandsIfEmpty(showPopup) ==
    IfEmptyReturn(IF ~commandsListSet \/ Len(commandsList) <= 0
                  THEN CacheCommands(showPopup)
                  ELSE [set |-> commandsListSet, list |-> commandsList,
                        popup |-> FALSE, didRead |-> FALSE, returned |-> TRUE])

\* A filter on which a flag that is present but false is taken as requested.
FlagSetWhenPresent(filter, flag) == IsSome(filter) /\ IsSome(filter[1][flag])

\* A flag of GetCommandFilter that is present and true
FlagSet(filter, flag) == IsSome(filter) /\ filter[1][flag] = Some(TRUE)

\* "Filter out some matches": whether the loop pushes cmd
PassesFilter(cmd, filter) ==
    /\ ~(FlagSet(filter, "hasDescription") /\ ~Truthy(cmd.description))
    /\ ~(FlagSet(filter, "hasMarkdown") /\ ~IsSome(cmd.markdownString))
    /\ ~(FlagSet(filter, "hasParameters")
         /\ (~IsSome(cmd.params) \/ Len(cmd.params[1]) <= 0))

\* A lookup that compares the name as it was typed.
SearchKeyVerbatim(command) == command

\* if ( command ) command = command.toLowerCase()
SearchKey(command) == IF Truthy(command) THEN Some(ToLowerCase(command[1])) ELSE command

\* A loop condition that compares the key with the display name.
MatchesRealName(cmd, key) == ~Truthy(key) \/ cmd.realName = key[1]

\* The condition of the loop body on cmd
Matches(cmd, key) == ~Truthy(key) \/ cmd.searchName = key[1]

\* The loop of getCommand from position from (1-based)
RECURSIVE MatchLoop(_, _, _, _)
MatchLoop(list, key, filter, from) ==
    IF from > Len(list) THEN <<>>
    ELSE (IF Matches(list[from], key) /\ PassesFilter(list[from], filter)
          THEN <<list[from]>> ELSE <<>>)
         \o MatchLoop(list, key, filter, from + 1)

NoCall ==
    [op |-> "none", command |-> None, filter |-> None, showPopup |-> FALSE,
     result |-> <<>>, returned |-> FALSE, didRead |-> FALSE]

\* The effect of a call of cacheCommandsIfEmpty whose outcome is c
EnsureEffect(showPopup, c) ==
        /\ commandsListSet' = c.set
        /\ commandsList' = c.list
        /\ popupOpen' = (popupOpen \/ c.popup)
        /\ lastCall' = [NoCall EXCEPT !.op = "cacheCommandsIfEmpty",
                                      !.showPopup = showPopup,
                                      !.returned = c.returned,
                                      !.didRead = c.didRead]
        /\ UNCHANGED <<blitzMaxPath, fileReadable, fileData, rebuilding, parserVars>>

\* export function cacheCommandsIfEmpty( showPopup )
EnsurePopulated(showPopup) == EnsureEffect(showPopup, CacheCommandsIfEmpty(showPopup))

\* The effect of a call of getCommand whose cacheCommandsIfEmpty( false ) gave c
GetEffect(command, filter, c) ==
        /\ commandsListSet' = c.set
        /\ commandsList' = c.list
        /\ popupOpen' = (popupOpen \/ c.popup)
        /\ lastCall' = [NoCall EXCEPT !.op = "getCommand",
                                      !.command = command,
                                      !.filter = filter,
                                      !.result = IF ~c.set THEN <<>>
                                                 ELSE MatchLoop(c.list, SearchKey(command),
                                                                filter, 1),
                                      !.didRead = c.didRead]
        /\ UNCHANGED <<blitzMaxPath, fileReadable, fileData, rebuilding, parserVars>>

\* export function getCommand( command, filter )
GetCommand(command, filter) == GetEffect(command, filter, CacheCommandsIfEmpty(FALSE))

\* The command 'blitzmax.rebuildDoc' up to cp.spawn: makedocs starts.  One
\* makedocs process at a time is modelled.
RebuildDoc ==
    /\ ~rebuilding
    /\ blitzMaxPath
    /\ rebuilding' = TRUE
    /\ UNCHANGED <<commandsListSet, commandsList, blitzMaxPath, fileReadable,
                   fileData, popupOpen, lastCall, parserVars>>

\* docProcess.on( 'close' ): busy.notify(), the progress callback returns
RebuildClose ==
    /\ rebuilding
    /\ rebuilding' = FALSE
    /\ UNCHANGED <<commandsListSet, commandsList, blitzMaxPath, fileReadable,
                   fileData, popupOpen, lastCall, parserVars>>

\* token.onCancellationRequested: the process is killed, busy.notify()
RebuildCancel ==
    /\ rebuilding
    /\ rebuilding' = FALSE
    /\ UNCHANGED <<commandsListSet, commandsList, blitzMaxPath, fileReadable,
                   fileData, popupOpen, lastCall, parserVars>>

\* The answer to the "Documentation not found" warning of cacheCommands
PopupAnswer(yes) ==
    /\ popupOpen
    /\ popupOpen' = FALSE
    /\ rebuilding' = (rebuilding \/ (yes /\ blitzMaxPath))
    /\ UNCHANGED <<commandsListSet, commandsList, blitzMaxPath, fileReadable,
                   fileData, lastCall, parserVars>>

-----------------------------------------------------------------------------
(* The catalog file and the makedocs process that regenerates it *)

\* The number of catalog lines a model file holds at most
MaxLines == 2

sFoo == <<"F", "o", "o">>

sModPath == <<"|", "/", "m", "o", "d", "/", "m", "/", "f">>

\* Foo(a) : d|/mod/m/f    a function with a description and a module
LineFunction == sFoo \o <<"(", "a", ")", " ", ":", " ", "d">> \o sModPath

\* FOO|/x/y    the same name in another casing, nothing else
LinePlain == <<"F", "O", "O", "|", "/", "x", "/", "y">>

\* Bar    no '|' and no '/'
LineNoSeparator == <<"B", "a", "r">>

\* |/mod/m/f    an empty left side
LineNoName == sModPath

\* Foo : |/x/y    a description separator with nothing after it
LineEmptyDescription == sFoo \o <<" ", ":", " ", "|", "/", "x", "/", "y">>

\* The lines makedocs writes in the life-cycle specification
LifeLines == {LineFunction, LineNoSeparator, LineNoName}

\* The lines of the catalogs that the query specification starts from
FindLines == {LineFunction, LinePlain, LineNoName, LineEmptyDescription}

\* The catalogs of exactly n lines of a set, each line ended by EOL
RECURSIVE CatalogsOfLen(_, _)
CatalogsOfLen(lines, n) ==
    IF n = 0 THEN {<<>>}
    ELSE {c \o l \o EOL : c \in CatalogsOfLen(lines, n - 1), l \in lines}

Catalogs(lines) == UNION {CatalogsOfLen(lines, n) : n \in 0..MaxLines}

\* The lines written to a catalog so far
LineCount(data) == Len(Split(data, EOL)) - 1

\* makedocs (cp.spawn) creates or truncates commands.txt
MakedocsCreate ==
    /\ rebuilding
    /\ fileReadable' = TRUE
    /\ fileData' = <<>>
    /\ UNCHANGED <<commandsListSet, commandsList, blitzMaxPath, rebuilding,
                   popupOpen, lastCall, parserVars>>

\* makedocs (cp.spawn) appends one line to commands.txt
MakedocsWrite(line) ==
    /\ rebuilding
    /\ fileReadable
    /\ LineCount(fileData) < MaxLines
    /\ fileData' = fileData \o line \o EOL
    /\ UNCHANGED <<commandsListSet, commandsList, blitzMaxPath, fileReadable,
                   rebuilding, popupOpen, lastCall, parserVars>>

\* commands.txt is deleted or made unreadable: fs.readFileSync will throw
CatalogRemoved ==
    /\ fileReadable
    /\ fileReadable' = FALSE
    /\ fileData' = <<>>
    /\ UNCHANGED <<commandsListSet, commandsList, blitzMaxPath, rebuilding,
                   popupOpen, lastCall, parserVars>>

-----------------------------------------------------------------------------
(* The index: the extension's life from activation *)

\* The arguments of getCommand in the life-cycle specification
undefinedFilter == None

FilterOf(d, m, p) == Some([hasDescription |-> d, hasMarkdown |-> m, hasParameters |-> p])

Flag == {None, Some(FALSE), Some(TRUE)}

Filters == {undefinedFilter} \cup {FilterOf(d, m, p) : d \in Flag, m \in Flag, p \in Flag}

\* showQuickHelp's filter, { hasDescription: true }
QuickHelpFilter == FilterOf(Some(TRUE), None, None)

LifeNames == {None, Some(<<"f", "O", "o">>)}

LifeFilters == {undefinedFilter, QuickHelpFilter}

ParserIdle ==
    /\ parsePc = "done"
    /\ paramsRaw = <<>>
    /\ paramsSet = FALSE
    /\ index = 0
    /\ parser = ParserStart

Init ==
    /\ commandsListSet = FALSE
    /\ commandsList = <<>>
    /\ blitzMaxPath \in BOOLEAN
    /\ fileReadable \in BOOLEAN
    /\ fileData \in (IF fileReadable THEN Catalogs(LifeLines) ELSE {<<>>})
    /\ rebuilding = FALSE
    /\ popupOpen = FALSE
    /\ lastCall = NoCall
    /\ ParserIdle

Next ==
    \/ \E showPopup \in BOOLEAN : EnsurePopulated(showPopup)
    \/ \E command \in LifeNames, filter \in LifeFilters : GetCommand(command, filter)
    \/ RebuildDoc
    \/ RebuildClose
    \/ RebuildCancel
    \/ \E yes \in BOOLEAN : PopupAnswer(yes)
    \/ MakedocsCreate
    \/ \E line \in LifeLines : MakedocsWrite(line)
    \/ CatalogRemoved

Spec == Init /\ [][Next]_vars

-----------------------------------------------------------------------------
(* The query surface on its own: getCommand over every name and filter *)

\* The names asked for: omitted, the empty string, and fOo
FindNames == {None, Some(<<>>), Some(<<"f", "O", "o">>)}

InitFind ==
    /\ commandsListSet = FALSE
    /\ commandsList = <<>>
    /\ blitzMaxPath = FALSE
    /\ fileReadable = TRUE
    /\ fileData \in Catalogs(FindLines)
    /\ rebuilding = FALSE
    /\ popupOpen = FALSE
    /\ lastCall = NoCall
    /\ ParserIdle

NextFind == \E command \in FindNames, filter \in Filters : GetCommand(command, filter)

SpecFind == InitFind /\ [][NextFind]_vars

-----------------------------------------------------------------------------
(* parseCommandParams step by step, over every short raw parameter text *)

\* The length of the raw parameter texts that are enumerated
MaxRawLen == 3

ParamAlphabet == {"a", ":", "=", ",", " ", "\"", "#", "%", "!", "$"}

RECURSIVE TextsOfLen(_)
TextsOfLen(n) ==
    IF n = 0 THEN {<<>>}
    ELSE {Append(t, c) : t \in TextsOfLen(n - 1), c \in ParamAlphabet}

\* a:Int, b:String = "hi, there"
QuotedExample ==
    <<"a", ":", "I", "n", "t", ",", " ", "b", ":", "S", "t", "r", "i", "n", "g",
      " ", "=", " ", "\"", "h", "i", ",", " ", "t", "h", "e", "r", "e", "\"">>

\* x, y#
SigilExample == <<"x", ",", " ", "y", "#">>

RawTexts == UNION {TextsOfLen(n) : n \in 0..MaxRawLen} \cup {QuotedExample, SigilExample}

\* "Make sure there's actually something to parse", the trim, the locals
ParseEntry ==
    /\ parsePc = "entry"
    /\ IF paramsRaw = <<>>
       THEN /\ parsePc' = "done"
            /\ UNCHANGED <<paramsRaw, paramsSet>>
       ELSE /\ paramsRaw' = Trim(paramsRaw)
            /\ IF Trim(paramsRaw) = <<>>
               THEN parsePc' = "done" /\ UNCHANGED paramsSet
               ELSE parsePc' = "loop" /\ paramsSet' = TRUE
    /\ index' = 0
    /\ parser' = ParserStart
    /\ UNCHANGED indexVars

\* One iteration of the loop: chr = cmd.paramsRaw[index]
ParseStep ==
    /\ parsePc = "loop"
    /\ index < Len(paramsRaw)
    /\ parser' = ParseChar(parser, paramsRaw[index + 1])
    /\ index' = index + 1
    /\ UNCHANGED <<parsePc, paramsRaw, paramsSet, indexVars>>

\* The loop ends: index = cmd.paramsRaw.length
ParseFinish ==
    /\ parsePc = "loop"
    /\ index = Len(paramsRaw)
    /\ parsePc' = "done"
    /\ UNCHANGED <<paramsRaw, paramsSet, index, parser, indexVars>>

InitParams ==
    /\ commandsListSet = FALSE
    /\ commandsList = <<>>
    /\ blitzMaxPath = FALSE
    /\ fileReadable = FALSE
    /\ fileData = <<>>
    /\ rebuilding = FALSE
    /\ popupOpen = FALSE
    /\ lastCall = NoCall
    /\ parsePc = "entry"
    /\ paramsRaw \in RawTexts
    /\ paramsSet = FALSE
    /\ index = 0
    /\ parser = ParserStart

NextParams == ParseEntry \/ ParseStep \/ ParseFinish

SpecParams == InitParams /\ [][NextParams]_vars

-----------------------------------------------------------------------------
(* addCommand line by line: catalogs of one line, over short left sides and *)
(* short urls                                                               *)

\* The number of tokens of the left sides that are enumerated
MaxLeftTokens == 4

\* The number of '/'-separated segments of the urls that are enumerated
MaxSegments == 4

LeftTokens == {<<"F">>, <<"a">>, <<"(">>, <<")">>, <<":">>, <<" ">>, DescSep}

UrlSegments == {<<>>, <<"x">>, <<"m", "o", "d">>, <<"D", "o", "c", "s">>}

\* The texts made of n tokens
RECURSIVE TokenTexts(_, _)
TokenTexts(tokens, n) ==
    IF n = 0 THEN {<<>>}
    ELSE {t \o s : t \in tokens, s \in TokenTexts(tokens, n - 1)}

\* The paths made of n segments, n >= 1
RECURSIVE PathsOf(_)
PathsOf(n) ==
    IF n = 1 THEN UrlSegments
    ELSE {p \o <<"/">> \o s : p \in PathsOf(n - 1), s \in UrlSegments}

LeftSides == UNION {TokenTexts(LeftTokens, n) : n \in 0..MaxLeftTokens}

Paths == UNION {PathsOf(n) : n \in 1..MaxSegments}

\* Sin#(angle#) : Returns sine of angle | ... | /mod/math.mod/math.bmx/Sin
SinLine ==
    <<"S", "i", "n", "#", "(", "a", "n", "g", "l", "e", "#", ")", " ", ":",
      " ", "R", "e", "t", "u", "r", "n", "s", " ", "s", "i", "n", "e", " ",
      "o", "f", " ", "a", "n", "g", "l", "e", " ", "|", " ", ".", ".", ".",
      " ", "|", " ", "/", "m", "o", "d", "/", "m", "a", "t", "h", ".", "m",
      "o", "d", "/", "m", "a", "t", "h", ".", "b", "m", "x", "/", "S", "i",
      "n">>

\* F : a : b|/x/y    the description separator twice
LineTwoSeparators ==
    <<"F", " ", ":", " ", "a", " ", ":", " ", "b", "|", "/", "x", "/", "y">>

\* F(=" : ") : dddd|/x/y    the description separator inside a quoted default
LineQuotedSeparator ==
    <<"F", "(", "=", "\"", " ", ":", " ", "\"", ")", " ", ":", " ", "d", "d",
      "d", "d", "|", "/", "x", "/", "y">>

\* Foo(a):Int : d|/x/y    Name(Params):ReturnType : Description
LineReturnsAfterParams ==
    <<"F", "o", "o", "(", "a", ")", ":", "I", "n", "t", " ", ":", " ", "d",
      "|", "/", "x", "/", "y">>

\* Foo:Int(a) : d|/x/y    Name:ReturnType(Params) : Description
LineReturnsBeforeParams ==
    <<"F", "o", "o", ":", "I", "n", "t", "(", "a", ")", " ", ":", " ", "d",
      "|", "/", "x", "/", "y">>

\* Foo:Int|/x/y    Name:ReturnType
LineReturnsOnly ==
    <<"F", "o", "o", ":", "I", "n", "t", "|", "/", "x", "/", "y">>

\* Foo()|/x/y    an empty parameter list
LineNoParams ==
    <<"F", "o", "o", "(", ")", "|", "/", "x", "/", "y">>

\* Foo( )|/x/y    a blank parameter list
LineBlankParams ==
    <<"F", "o", "o", "(", " ", ")", "|", "/", "x", "/", "y">>

\* F|/docs/a/b/m/f    the docs layout
LineDocs ==
    <<"F", "|", "/", "d", "o", "c", "s", "/", "a", "/", "b", "/", "m", "/",
      "f">>

\* F|/DOCS/a/b/m/f#x    the docs layout in capitals, with an anchor
LineDocsUpper ==
    <<"F", "|", "/", "D", "O", "C", "S", "/", "a", "/", "b", "/", "m", "/",
      "f", "#", "x">>

\* F|/docs/a    the docs layout without segments 4 and 5
LineDocsShort ==
    <<"F", "|", "/", "d", "o", "c", "s", "/", "a">>

\* F|/Mod/m/f/g    the mod layout in mixed case
LineModUpper ==
    <<"F", "|", "/", "M", "o", "d", "/", "m", "/", "f", "/", "g">>

ExampleLines ==
    {SinLine, LineTwoSeparators, LineQuotedSeparator, LineReturnsAfterParams, LineReturnsBeforeParams,
     LineReturnsOnly, LineNoParams, LineBlankParams, LineDocs,
     LineDocsUpper, LineDocsShort, LineModUpper, LineNoSeparator}

\* The catalogs of one line: a left side with the url /x/y, the name F with a
\* path and maybe an anchor, and the examples
LineTexts ==
    {left \o <<"|", "/", "x", "/", "y">> : left \in LeftSides}
    \cup {<<"F", "|">> \o path \o anchor : path \in Paths, anchor \in {<<>>, <<"#", "a">>}}
    \cup ExampleLines

InitLine ==
    /\ commandsListSet = FALSE
    /\ commandsList = <<>>
    /\ blitzMaxPath = FALSE
    /\ fileReadable = TRUE
    /\ fileData \in LineTexts
    /\ rebuilding = FALSE
    /\ popupOpen = FALSE
    /\ lastCall = NoCall
    /\ ParserIdle

\* { hasParameters: true }
HasParametersFilter == FilterOf(None, None, Some(TRUE))

NextLine ==
    \/ \E showPopup \in BOOLEAN : EnsurePopulated(showPopup)
    \/ GetCommand(None, HasParametersFilter)

SpecLine == InitLine /\ [][NextLine]_vars

-----------------------------------------------------------------------------
(* getCommand on the catalog that holds the Sin line only *)

sSin == <<"s", "i", "n">>

SinNames == {None, Some(sSin), Some(sSin \o <<"#">>), Some(<<"S", "i", "n", "#">>)}

InitSin ==
    /\ commandsListSet = FALSE
    /\ commandsList = <<>>
    /\ blitzMaxPath = FALSE
    /\ fileReadable = TRUE
    /\ fileData = SinLine
    /\ rebuilding = FALSE
    /\ popupOpen = FALSE
    /\ lastCall = NoCall
    /\ ParserIdle

NextSin ==
    \/ \E showPopup \in BOOLEAN : EnsurePopulated(showPopup)
    \/ \E command \in SinNames, filter \in Filters : GetCommand(command, filter)

SpecSin == InitSin /\ [][NextSin]_vars

-----------------------------------------------------------------------------
(* The claims *)

\* The records of list whose searchName is the lower-cased name
WithSearchName(list, name) ==
    LET Same(cmd) == cmd.searchName = ToLowerCase(name)
    IN  SelectSeq(list, Same)

\* What find(name) returns without a filter (C1): every record when no name is
\* given, the records of that search name otherwise
NameMatching(list, command) ==
    IF ~Truthy(command) THEN list ELSE WithSearchName(list, command[1])

\* A flag of the filter that is set to true
Requested(filter, flag) == filter # None /\ filter[1][flag] = Some(TRUE)

\* A step that is a call of ensurePopulated or of find
LifeCall ==
    \/ \E showPopup \in BOOLEAN : EnsurePopulated(showPopup)
    \/ \E command \in LifeNames, filter \in LifeFilters : GetCommand(command, filter)

\* C1 as stated: on a populated index find(name) without a filter returns exactly
\* the records whose searchName is the lower-cased name, in catalog order, for
\* any name, and every record only when the name is omitted.
C1_FindAnyName ==
    (lastCall.op = "getCommand" /\ lastCall.filter = None /\ commandsList # <<>>)
        => lastCall.result = (IF lastCall.command = None THEN commandsList
                              ELSE WithSearchName(commandsList, lastCall.command[1]))

\* C1 (amended): on a populated index find(name) without a filter returns, for a
\* non-empty name, exactly the records whose searchName is the lower-cased name,
\* each once and in catalog order; for an omitted or empty name it returns every
\* record in catalog order.
C1_FindByName ==
    (lastCall.op = "getCommand" /\ lastCall.filter = None /\ commandsList # <<>>)
        => lastCall.result = (IF ~Truthy(lastCall.command) THEN commandsList
                              ELSE WithSearchName(commandsList, lastCall.command[1]))

\* C1 witness: find("fOo") returned the two records Foo and FOO, catalog order.
C1_Witness ==
    /\ lastCall.op = "getCommand"
    /\ lastCall.filter = None
    /\ lastCall.command = Some(<<"f", "O", "o">>)
    /\ Len(lastCall.result) = 2
    /\ lastCall.result[1].realName = <<"F", "o", "o">>
    /\ lastCall.result[2].realName = <<"F", "O", "O">>
    /\ Len(commandsList) = 2

\* C2 as stated: find(name, filter) returns exactly the name-matching records
\* that have a description if hasDescription is true, markdown if hasMarkdown is
\* true, and non-empty params if hasParameters is true.
C2_FilterPresence ==
    lastCall.op = "getCommand" =>
        LET Kept(cmd) ==
                /\ Requested(lastCall.filter, "hasDescription") => IsSome(cmd.description)
                /\ Requested(lastCall.filter, "hasMarkdown") => IsSome(cmd.markdownString)
                /\ Requested(lastCall.filter, "hasParameters")
                       => (IsSome(cmd.params) /\ cmd.params[1] # <<>>)
        IN  lastCall.result = SelectSeq(NameMatching(commandsList, lastCall.command), Kept)

\* C2 (amended): find(name, filter) returns exactly the name-matching records
\* that have a non-empty description if hasDescription is true, markdown if
\* hasMarkdown is true, and non-empty params if hasParameters is true; a flag
\* that is absent or false excludes nothing, so the result is a subsequence, in
\* order, of the unfiltered result.
C2_FilterNonEmpty ==
    lastCall.op = "getCommand" =>
        LET Kept(cmd) ==
                /\ Requested(lastCall.filter, "hasDescription")
                       => (IsSome(cmd.description) /\ cmd.description[1] # <<>>)
                /\ Requested(lastCall.filter, "hasMarkdown") => IsSome(cmd.markdownString)
                /\ Requested(lastCall.filter, "hasParameters")
                       => (IsSome(cmd.params) /\ cmd.params[1] # <<>>)
        IN  lastCall.result = SelectSeq(NameMatching(commandsList, lastCall.command), Kept)

\* C2 witness: a filter with one flag true, one false and one absent kept one of
\* two name-matching records.
C2_Witness ==
    /\ lastCall.op = "getCommand"
    /\ lastCall.filter = FilterOf(None, Some(FALSE), Some(TRUE))
    /\ Len(NameMatching(commandsList, lastCall.command)) = 2
    /\ Len(lastCall.result) = 1

\* C3 as stated: ensurePopulated returns true if and only if the backing
\* sequence is non-empty after the call.
C3_ReturnsNonEmpty ==
    lastCall.op = "cacheCommandsIfEmpty"
        => (lastCall.returned <=> (commandsListSet /\ Len(commandsList) > 0))

\* C4: on a populated index a call of ensurePopulated or find reads no file and
\* leaves the backing sequence as it was, whatever the catalog on disk holds.
C4_PopulatedIdempotent ==
    [][(commandsListSet /\ Len(commandsList) > 0 /\ LifeCall)
        => (commandsListSet' /\ commandsList' = commandsList /\ ~lastCall'.didRead)]_vars

\* C4 witness: a call on a populated index read nothing while the catalog on
\* disk no longer parses to the records held.
C4_Witness ==
    /\ commandsListSet
    /\ Len(commandsList) > 0
    /\ lastCall.op = "getCommand"
    /\ ~lastCall.didRead
    /\ fileReadable
    /\ AddCommand(fileData).list # commandsList
    /\ ~rebuilding

\* C5 as stated: a call on an unset or empty index whose file read fails leaves
\* the sequence as it was, does not report a populated index, finds nothing, and
\* has attempted the load.
C5_ReadFailureSilent ==
    [][((~commandsListSet \/ commandsList = <<>>) /\ ~fileReadable /\ LifeCall)
        => /\ commandsListSet' = commandsListSet
           /\ commandsList' = commandsList
           /\ lastCall'.didRead
           /\ lastCall'.result = <<>>
           /\ ~lastCall'.returned]_vars

\* The non-blank lines of a catalog text
NonBlank(data) ==
    LET Filled(line) == line # <<>>
    IN  SelectSeq(Split(data, EOL), Filled)

\* C6 as stated: a call that reads the catalog leaves exactly one record per
\* non-blank line, whatever the lines are.
C6_OneRecordPerLine ==
    [][(fileReadable /\ LifeCall /\ lastCall'.didRead)
        => Len(commandsList') = Len(NonBlank(fileData))]_vars

\* C7 as stated: when a regeneration completes or is cancelled the cached
\* sequence is cleared.
C7_RebuildClearsIndex ==
    [][(rebuilding /\ ~rebuilding') => (~commandsListSet' \/ commandsList' = <<>>)]_vars

\* C8: every record of the backing sequence has searchName = realName lower-cased.
C8_SearchNameLowercase ==
    \A i \in 1..Len(commandsList) :
        commandsList[i].searchName = ToLowerCase(commandsList[i].realName)

\* C8 witness: a record is held whose realName has an upper-case letter.
C8_Witness ==
    \E i \in 1..Len(commandsList) :
        /\ commandsList[i].realName = <<"F", "o", "o">>
        /\ commandsList[i].searchName = <<"f", "o", "o">>

\* C9 as stated: every record has a non-empty realName and searchName.
C9_NamesNonEmpty ==
    \A i \in 1..Len(commandsList) :
        commandsList[i].realName # <<>> /\ commandsList[i].searchName # <<>>

\* C10: inside a quoted string of a default value every character, a comma or a
\* blank too, is appended to the current param's default and starts no new
\* param, the quotes are kept, and a:Int, b:String = "hi, there" gives the two
\* params {a, Int, ""} and {b, String, "\"hi, there\""}.
C10_QuotedDefault ==
    /\ [][(parsePc = "loop" /\ index' = index + 1
           /\ parser.parse = "default" /\ parser.inString)
          => /\ parser'.parse = "default"
             /\ ~parser'.createNewParam
             /\ Len(parser'.params) = Len(parser.params)
             /\ parser'.params =
                    [parser.params EXCEPT ![Len(parser.params)].default =
                        Append(@, paramsRaw[index'])]]_vars
    /\ []((parsePc = "done" /\ paramsRaw = QuotedExample)
          => parser.params =
                 <<[name |-> <<"a">>, type |-> TypeInt, default |-> <<>>],
                   [name |-> <<"b">>, type |-> TypeString,
                    default |-> <<"\"", "h", "i", ",", " ", "t", "h", "e", "r", "e", "\"">>]>>)

\* C10 witness: a comma has just been consumed inside a quoted default and is
\* the last character of that default.
C10_Witness ==
    /\ parsePc = "loop"
    /\ index > 0
    /\ paramsRaw[index] = ","
    /\ parser.parse = "default"
    /\ parser.inString
    /\ Len(parser.params) = 1
    /\ parser.params[1].default = <<"\"", ",">>

\* The type a sigil declares
SigilType(chr) ==
    CASE chr = "%" -> TypeInt
      [] chr = "#" -> TypeFloat
      [] chr = "!" -> TypeDouble
      [] chr = "$" -> TypeString

\* The type of the param being read before a step: that of the last param, or
\* Int when the step starts a new param
TypeBefore == IF parser.createNewParam THEN TypeInt ELSE LastParam(parser).type

\* A step of the loop, on the character it consumes
Stepping == parsePc = "loop" /\ index' = index + 1

\* C11: a param with no type annotation has type Int; in Name mode a sigil sets
\* the type (% Int, # Float, ! Double, $ String) and ':' clears it, both
\* switching to Type mode, every other character leaves the type alone; in Type
\* mode every character but ',', '=' and the blank is appended to the type; and
\* x, y# gives {x, Int, ""} and {y, Float, ""}.
C11_TypesAndSigils ==
    /\ [][(Stepping /\ parser.parse = "name")
          => LET chr == paramsRaw[index']
             IN  IF chr \in {"%", "#", "!", "$"}
                 THEN parser'.parse = "type" /\ LastParam(parser').type = SigilType(chr)
                 ELSE IF chr = ":"
                 THEN parser'.parse = "type" /\ LastParam(parser').type = <<>>
                 ELSE LastParam(parser').type = TypeBefore]_vars
    /\ [][(Stepping /\ parser.parse = "type")
          => LET chr == paramsRaw[index']
             IN  LastParam(parser').type =
                     (IF chr \in {",", "=", " "} THEN LastParam(parser).type
                      ELSE Append(LastParam(parser).type, chr))]_vars
    /\ []((parsePc = "done" /\ paramsSet
           /\ \A i \in 1..Len(paramsRaw) : paramsRaw[i] \notin {":", "%", "#", "!", "$"})
          => \A k \in 1..Len(parser.params) : parser.params[k].type = TypeInt)
    /\ []((parsePc = "done" /\ paramsRaw = SigilExample)
          => parser.params =
                 <<[name |-> <<"x">>, type |-> TypeInt, default |-> <<>>],
                   [name |-> <<"y">>, type |-> TypeFloat, default |-> <<>>]>>)

\* C11 witness: a sigil has set the type and a further character was appended
\* to it in Type mode.
C11_Witness ==
    /\ parsePc = "done"
    /\ paramsRaw = <<"a", "#", "a">>
    /\ parser.params = <<[name |-> <<"a">>, type |-> Append(TypeFloat, "a"),
                          default |-> <<>>]>>

\* The positions from i on of the separating commas of a raw text: the commas
\* that are not inside a quoted default. A default starts at '=' and ends at
\* the next separating comma; a quoted string starts and ends at '"' inside a
\* default.
RECURSIVE SeparatingCommas(_, _, _, _)
SeparatingCommas(raw, i, inDefault, inQuotes) ==
    IF i > Len(raw) THEN {}
    ELSE IF inDefault /\ inQuotes
    THEN SeparatingCommas(raw, i + 1, TRUE, raw[i] # "\"")
    ELSE IF raw[i] = ","
    THEN {i} \cup SeparatingCommas(raw, i + 1, FALSE, FALSE)
    ELSE IF inDefault
    THEN SeparatingCommas(raw, i + 1, TRUE, raw[i] = "\"")
    ELSE SeparatingCommas(raw, i + 1, raw[i] = "=", FALSE)

Separators == SeparatingCommas(paramsRaw, 1, FALSE, FALSE)

\* The number of the param read from the segment that follows position i
SegmentAfter(i) == 1 + Cardinality({j \in Separators : j <= i})

ParsedParams == parsePc = "done" /\ paramsSet

\* C19: a param is created once per comma-delimited segment, on the first
\* character consumed for it: the number of params of a trimmed non-empty raw
\* text is 1 plus the number of separating commas followed by at least one more
\* character; a trailing comma adds no param; a leading comma and two adjacent
\* separators yield a param with empty name and type Int.
C19_ParamPerSegment ==
    /\ [][Stepping => Len(parser'.params)
                        = Len(parser.params) + (IF parser.createNewParam THEN 1 ELSE 0)]_vars
    /\ [](ParsedParams
          => Len(parser.params)
               = 1 + Cardinality({i \in Separators : i < Len(paramsRaw)}))
    /\ [](ParsedParams
          => \A i \in Separators :
                 (i = 1 \/ i - 1 \in Separators)
                 => /\ parser.params[SegmentAfter(i) - 1].name = <<>>
                    /\ parser.params[SegmentAfter(i) - 1].type = TypeInt)

\* C19 witness: a , , has been parsed: the adjacent separators gave an empty
\* param and the trailing comma gave none.
C19_Witness ==
    /\ ParsedParams
    /\ paramsRaw = <<"a", ",", ",">>
    /\ Len(parser.params) = 2
    /\ parser.params[2] = NewParam

\* The name of the param being read before a step
NameBefore == IF parser.createNewParam THEN <<>> ELSE LastParam(parser).name

\* C20: inString is true only in Default mode; a '"' met in Name or Type mode
\* is appended to the name or the type and leaves the flag alone; the mode
\* stays Default while the flag is true; a new segment starts in Name mode with
\* the flag false.
C20_StringOnlyInDefault ==
    /\ [](parser.inString => parser.parse = "default")
    /\ [](parser.createNewParam => (parser.parse = "name" /\ ~parser.inString))
    /\ [][(Stepping /\ parser.parse = "name" /\ paramsRaw[index'] = "\"")
          => /\ parser'.inString = parser.inString
             /\ parser'.parse = "name"
             /\ LastParam(parser').name = Append(NameBefore, "\"")]_vars
    /\ [][(Stepping /\ parser.parse = "type" /\ paramsRaw[index'] = "\"")
          => /\ parser'.inString = parser.inString
             /\ parser'.parse = "type"
             /\ LastParam(parser').type = Append(LastParam(parser).type, "\"")]_vars
    /\ [][(Stepping /\ parser.inString) => parser'.parse = "default"]_vars

\* C20 witness: '"' was read in Name mode and again in Type mode.
C20_Witness ==
    /\ parsePc = "done"
    /\ paramsRaw = <<"\"", ":", "\"">>
    /\ parser.params = <<[name |-> <<"\"">>, type |-> <<"\"">>, default |-> <<>>]>>
    /\ ~parser.inString

\* The catalog of one line has been read and its line gave a record
LineIndexed == lastCall.didRead /\ Len(commandsList) = 1

\* The left side of the line of a one-line catalog
LeftOfLine == Split(fileData, <<"|">>)[1]

\* A catalog line F(<params>)|/x/y that embeds the rendering of a record
SyntheticLine(cmd) ==
    <<"F", "(">> \o cmd.paramsPretty[1] \o <<")", "|", "/", "x", "/", "y">>

\* C12 as stated: parsing the paramsPretty of any record again, embedded in a
\* synthetic line, gives the same params and the same rendering.
C12_PrettyRoundTrip ==
    (LineIndexed /\ IsSome(commandsList[1].params))
    => /\ LineCommand(SyntheticLine(commandsList[1])).params = commandsList[1].params
       /\ LineCommand(SyntheticLine(commandsList[1])).paramsPretty
            = commandsList[1].paramsPretty

\* The left side of a line of the documented grammar
\* Name[(Params)][:ReturnType][ : Description]
GrammarLeft(name, params, returns, description) ==
    name
    \o (IF IsSome(params) THEN <<"(">> \o params[1] \o <<")">> ELSE <<>>)
    \o (IF IsSome(returns) THEN <<":">> \o returns[1] ELSE <<>>)
    \o (IF IsSome(description) THEN DescSep \o description[1] ELSE <<>>)

GrammarNames == {<<"F">>, sFoo}

GrammarParams == {None, Some(<<"a">>)}

GrammarReturns == {None, Some(<<"a">>), Some(TypeInt)}

GrammarDescriptions == {None, Some(<<"a">>), Some(<<"d">>)}

\* C13 as stated: from a left side of the documented grammar the line parser
\* recovers the name, the text between the parentheses, the return type (also
\* after a parameter list) and the description.
C13_GrammarFieldsRecovered ==
    \A name \in GrammarNames, params \in GrammarParams,
       returns \in GrammarReturns, description \in GrammarDescriptions :
        (LineIndexed /\ LeftOfLine = GrammarLeft(name, params, returns, description))
        => /\ commandsList[1].realName = name
           /\ commandsList[1].paramsRaw = params
           /\ commandsList[1].returns = returns
           /\ commandsList[1].description = description

\* C16 as stated: the description is everything after the first " : " of the
\* left side and the left side passed on is the text before it, however often
\* " : " occurs; without " : " there is no description and the left side is
\* passed on unchanged.
C16_DescriptionAfterFirstSeparator ==
    LineIndexed
    => IF Includes(LeftOfLine, DescSep)
       THEN /\ commandsList[1].description
                 = Some(Substr(LeftOfLine, IndexOf(LeftOfLine, DescSep) + 3))
            /\ DescriptionOf(LeftOfLine).leftSide
                 = SubSeq(LeftOfLine, 1, IndexOf(LeftOfLine, DescSep))
       ELSE /\ commandsList[1].description = None
            /\ DescriptionOf(LeftOfLine).leftSide = LeftOfLine

\* The url of the line of a one-line catalog, and its '/'-separated segments
UrlOfLine == UrlOf(RightSide(Split(fileData, <<"|">>))).url[1]

SegmentsOfLine == Split(UrlOfLine, <<"/">>)

\* Whether segment[1] of the url exists and is name in some casing
SecondSegmentIs(name) ==
    Len(SegmentsOfLine) >= 2 /\ ToLowerCase(SegmentsOfLine[2]) = name

\* C17 as stated: the module is segment[4]/segment[5] of a docs url and
\* segment[2]/segment[3] of a mod url; every other layout (an empty url, a url
\* without '/', a url with too few segments) gives a record with no module.
C17_ModuleInference ==
    (lastCall.didRead /\ fileData # <<>>)
    => /\ Len(commandsList) = 1
       /\ commandsList[1].module =
              IF SecondSegmentIs(<<"d", "o", "c", "s">>) /\ Len(SegmentsOfLine) >= 6
              THEN Some(SegmentsOfLine[5] \o <<"/">> \o SegmentsOfLine[6])
              ELSE IF SecondSegmentIs(<<"m", "o", "d">>) /\ Len(SegmentsOfLine) >= 4
              THEN Some(SegmentsOfLine[3] \o <<"/">> \o SegmentsOfLine[4])
              ELSE None

SinIndexed == fileData = SinLine /\ LineIndexed

\* "Returns sine of angle"
SineText ==
    <<"R", "e", "t", "u", "r", "n", "s", " ", "s", "i", "n",
      "e", " ", "o", "f", " ", "a", "n", "g", "l", "e">>

\* "mod/math.mod" and "math.mod/math.bmx"
SineSegments01 == <<"m", "o", "d", "/", "m", "a", "t", "h", ".", "m", "o", "d">>

SineSegments23 ==
    <<"m", "a", "t", "h", ".", "m", "o", "d", "/",
      "m", "a", "t", "h", ".", "b", "m", "x">>

\* C14 as stated: the Sin line gives a function without return type, with
\* description "Returns sine of angle" and module "mod/math.mod".
C14_SinRecordAsStated ==
    SinIndexed
    => /\ commandsList[1].isFunction
       /\ commandsList[1].returns = None
       /\ commandsList[1].description = Some(SineText)
       /\ commandsList[1].module = Some(SineSegments01)

\* C14: the Sin line gives one record, a function without return type, whose
\* description is "Returns sine of angle " (the text up to the '|', with its
\* trailing blank) and whose module is "math.mod/math.bmx" (segments 2 and 3).
C14_SinRecord ==
    (fileData = SinLine /\ lastCall.didRead)
    => /\ Len(commandsList) = 1
       /\ commandsList[1].isFunction
       /\ commandsList[1].returns = None
       /\ commandsList[1].description = Some(SineText \o <<" ">>)
       /\ commandsList[1].module = Some(SineSegments23)

\* C14 witness: the Sin line has been indexed as a function with a module.
C14_Witness ==
    /\ SinIndexed
    /\ commandsList[1].isFunction
    /\ IsSome(commandsList[1].module)

\* The text between the parentheses of a left side that ends with ')', once
\* the description is cut off
BetweenParentheses(leftSide) ==
    SubSeq(leftSide, IndexOf(leftSide, <<"(">>) + 2, Len(leftSide) - 1)

HasParentheses(leftSide) ==
    Includes(leftSide, <<"(">>) /\ leftSide[Len(leftSide)] = ")"

FindSin(name) ==
    /\ fileData = SinLine
    /\ lastCall.op = "getCommand"
    /\ lastCall.command = Some(name)
    /\ lastCall.filter \in {undefinedFilter, HasParametersFilter}

\* C15 as stated: on the catalog of the Sin line find("sin") returns exactly
\* one record, whose searchName is "sin", also with { hasParameters: true }.
C15_FindSinAsStated ==
    FindSin(sSin)
    => /\ Len(lastCall.result) = 1
       /\ lastCall.result[1].searchName = sSin

\* C15: on the catalog of the Sin line find("sin#") returns exactly one
\* record, whose searchName is "sin#", also with { hasParameters: true };
\* find("sin") returns none.
C15_FindSinSigil ==
    /\ FindSin(sSin \o <<"#">>)
       => /\ Len(lastCall.result) = 1
          /\ lastCall.result[1].searchName = sSin \o <<"#">>
          /\ lastCall.result = commandsList
    /\ FindSin(sSin) => lastCall.result = <<>>

\* C15 witness: find("sin#", { hasParameters: true }) has returned the record.
C15_Witness ==
    /\ FindSin(sSin \o <<"#">>)
    /\ lastCall.filter = HasParametersFilter
    /\ Len(lastCall.result) = 1
    /\ IsSome(lastCall.result[1].params)

=============================================================================
